---- MODULE Spec2Model ----
(***************************************************************************)
(* Model of the INI value object of ding-libs (ini/ini_valueobj.c): the   *)
(* folding engine (value_fold, save_portion), the unfolding engine        *)
(* (value_unfold), and the value object operations built on them.         *)
(*                                                                         *)
(* A byte is a one-character string, a byte string is a sequence of bytes.*)
(* C offsets are 0-based: byte i of buf is buf[i + 1] here.               *)
(* Lengths, key lengths and boundaries are uint32_t in the code; every    *)
(* value of the model is far below 2^32, so no sum or difference wraps.   *)
(***************************************************************************)
EXTENDS Integers, Sequences, FiniteSets, TLC

(* ------------------------------------------------------------------------ *)
(* Bounds of the model                                                      *)
(* ------------------------------------------------------------------------ *)

\* longest canonical string handed to the folding engine
MaxLen == 5
\* largest key length handed to the folding engine
MaxKeyLen == 3
\* largest boundary handed to the folding engine
MaxBoundary == 6
\* number of fragments the heap can hold: the malloc of save_portion fails
\* once an array already holds this many fragments
MaxFragments == 9

\* failures of value_create_from_refarray that leave a block behind are
\* followed until this many structures are left behind
MaxLeaks == 2

(* ------------------------------------------------------------------------ *)
(* Program constants                                                        *)
(* ------------------------------------------------------------------------ *)

INI_FOLDING_OVERHEAD == 3

INI_EQUAL_SIGN == <<" ", "=", " ">>

EOK == 0

ENOMEM == 12

\* the byte that terminates every buffer and every copy (copy[len] = 0)
NUL == "NUL"

\* the bytes a value is made of
Bytes == {"a", "b", " ", "\t"}

\* buf[i] == ' ' || buf[i] == '\t'
IsSeparator(c) == c = " " \/ c = "\t"

\* buf[i] of a NUL-terminated buffer, i in 0..len
ByteAt(buf, i) == IF i < Len(buf) THEN buf[i + 1] ELSE NUL

\* the len bytes of buf that start at offset start
Slice(buf, start, len) == SubSeq(buf, start + 1, start + len)

\* concatenation of a sequence of byte strings
RECURSIVE Concat(_)
Concat(ss) == IF ss = <<>> THEN <<>> ELSE Head(ss) \o Concat(Tail(ss))

\* all byte strings of length n over the alphabet
RECURSIVE StringsOfLen(_, _)
StringsOfLen(alphabet, n) ==
    IF n = 0 THEN {<<>>}
    ELSE {<<c>> \o s : c \in alphabet, s \in StringsOfLen(alphabet, n - 1)}

\* all byte strings of length at most n over the alphabet
StringsUpTo(alphabet, n) == UNION {StringsOfLen(alphabet, k) : k \in 0..n}

(* ------------------------------------------------------------------------ *)
(* Folding engine                                                           *)
(* ------------------------------------------------------------------------ *)

\* ref_array_reset left out: the elements stay in the array
ref_array_reset_kept(raw_lines) == raw_lines

\* ref_array_reset: drops every element of the array
ref_array_reset(raw_lines) == <<>>

\* malloc(len + adj + 1) of save_portion returns NULL when the heap is full
malloc_fails(raw_lines) == Len(raw_lines) >= MaxFragments

\* the adj of save_portion without the test that lines were saved before
save_adj_anyline(raw_lines, buf, start, len) ==
    IF /\ ByteAt(buf, start) # " "
       /\ ByteAt(buf, start) # "\t"
       /\ len # 0
    THEN 1 ELSE 0

\* the adj of save_portion: 1 when a leading space is put in front
save_adj(raw_lines, buf, start, len) ==
    IF /\ ByteAt(buf, start) # " "
       /\ ByteAt(buf, start) # "\t"
       /\ len # 0
       /\ Len(raw_lines) # 0
    THEN 1 ELSE 0

\* save_portion(raw_lines, raw_lengths, buf + start, len)
save_portion(raw_lines, raw_lengths, buf, start, len) ==
    LET adj  == save_adj(raw_lines, buf, start, len)
        copy == (IF adj = 1 THEN <<" ">> ELSE <<>>) \o Slice(buf, start, len)
    IN  IF malloc_fails(raw_lines)
        THEN [error |-> ENOMEM, raw_lines |-> raw_lines,
              raw_lengths |-> raw_lengths]
        ELSE [error |-> EOK, raw_lines |-> Append(raw_lines, copy),
              raw_lengths |-> Append(raw_lengths, len + adj)]

\* the available width of the line being built, before start_place is added
fold_width(key_len, fold_bound, idx) ==
    IF idx = 0
    THEN IF fold_bound > key_len + INI_FOLDING_OVERHEAD
         THEN fold_bound - key_len - INI_FOLDING_OVERHEAD
         ELSE 0
    ELSE fold_bound

\* fold_len without the case of a first folding place that is already past
\* the preferred one: always fold at the previous folding place
fold_length_previous(start_place, fold_place, next_place) ==
    fold_place - start_place

\* fold_len once a folding place after best_place (or at 0) is found
fold_length(start_place, fold_place, next_place) ==
    IF fold_place = start_place /\ next_place # 0
    THEN next_place - start_place
    ELSE fold_place - start_place

\* the inner for loop folding at the preferred place itself, whitespace
\* or not
RECURSIVE fold_scan_hard(_, _, _, _, _)
fold_scan_hard(buf, best_place, start_place, fold_place, i) ==
    IF i = Len(buf)
    THEN IF i > best_place \/ i = 0
         THEN [brk |-> TRUE, done |-> TRUE, next_place |-> i,
               fold_len |-> IF fold_place = start_place /\ i # 0
                            THEN i - start_place
                            ELSE fold_place - start_place]
         ELSE [brk |-> FALSE, done |-> TRUE, next_place |-> i, fold_len |-> 0]
    ELSE IF IsSeparator(ByteAt(buf, i)) \/ i = best_place
         THEN IF i > best_place \/ i = 0
              THEN [brk |-> TRUE, done |-> FALSE, next_place |-> i,
                    fold_len |-> IF fold_place = start_place /\ i # 0
                                 THEN i - start_place
                                 ELSE fold_place - start_place]
              ELSE fold_scan_hard(buf, best_place, start_place, i, i + 1)
         ELSE fold_scan_hard(buf, best_place, start_place, fold_place, i + 1)

\* the inner for loop of value_fold, from position i on:
\* brk = left by break, done = the end of the buffer was reached
RECURSIVE fold_scan(_, _, _, _, _)
fold_scan(buf, best_place, start_place, fold_place, i) ==
    IF i = Len(buf)
    THEN IF i > best_place \/ i = 0
         THEN [brk |-> TRUE, done |-> TRUE, next_place |-> i,
               fold_len |-> fold_length(start_place, fold_place, i)]
         ELSE [brk |-> FALSE, done |-> TRUE, next_place |-> i, fold_len |-> 0]
    ELSE IF IsSeparator(ByteAt(buf, i)) \/ (best_place = 0 /\ i = 0)
         THEN IF i > best_place \/ i = 0
              THEN [brk |-> TRUE, done |-> FALSE, next_place |-> i,
                    fold_len |-> fold_length(start_place, fold_place, i)]
              ELSE fold_scan(buf, best_place, start_place, i, i + 1)
         ELSE fold_scan(buf, best_place, start_place, fold_place, i + 1)

\* the locals of value_fold after the arrays are reset and fold_bound is
\* normalised, before the first iteration of the while loop
fold_entry(fold_bound, raw_lines, raw_lengths) ==
    [fold_bound   |-> IF fold_bound = 0 THEN 1 ELSE fold_bound,
     start_place  |-> 0,
     resume_place |-> 0,
     idx          |-> 0,
     done         |-> FALSE,
     error        |-> EOK,
     raw_lines    |-> ref_array_reset(raw_lines),
     raw_lengths  |-> ref_array_reset(raw_lengths)]

\* one iteration of the while loop of value_fold
fold_iteration(buf, key_len, f) ==
    LET best_place == fold_width(key_len, f.fold_bound, f.idx) + f.start_place
        r  == fold_scan(buf, best_place, f.start_place, f.start_place,
                        f.resume_place)
        s1 == IF r.brk
              THEN save_portion(f.raw_lines, f.raw_lengths, buf,
                                f.start_place, r.fold_len)
              ELSE [error |-> EOK, raw_lines |-> f.raw_lines,
                    raw_lengths |-> f.raw_lengths]
        start1 == IF r.brk THEN f.start_place + r.fold_len ELSE f.start_place
        s2 == IF s1.error = EOK /\ r.done
              THEN save_portion(s1.raw_lines, s1.raw_lengths, buf,
                                start1, r.next_place - start1)
              ELSE s1
    IN  [fold_bound   |-> f.fold_bound,
         start_place  |-> IF s1.error = EOK THEN start1 ELSE f.start_place,
         resume_place |-> IF r.brk /\ s1.error = EOK THEN r.next_place
                          ELSE f.resume_place,
         idx          |-> IF s2.error # EOK THEN f.idx
                          ELSE f.idx + (IF r.brk THEN 1 ELSE 0)
                                     + (IF r.done THEN 1 ELSE 0),
         done         |-> r.done,
         error        |-> s2.error,
         raw_lines    |-> s2.raw_lines,
         raw_lengths  |-> s2.raw_lengths]

\* the while loop of value_fold: runs until done or until a save fails
RECURSIVE fold_loop(_, _, _)
fold_loop(buf, key_len, f) ==
    IF f.done \/ f.error # EOK THEN f
    ELSE fold_loop(buf, key_len, fold_iteration(buf, key_len, f))

\* value_fold(unfolded, key_len, fold_bound, raw_lines, raw_lengths)
value_fold(unfolded, key_len, fold_bound, raw_lines, raw_lengths) ==
    LET f == fold_loop(unfolded, key_len,
                       fold_entry(fold_bound, raw_lines, raw_lengths))
    IN  [error |-> f.error, raw_lines |-> f.raw_lines,
         raw_lengths |-> f.raw_lengths]

(* ------------------------------------------------------------------------ *)
(* Unfolding engine                                                         *)
(* ------------------------------------------------------------------------ *)

\* the for loop of value_unfold from element i on (1-based here)
RECURSIVE unfold_from(_, _, _)
unfold_from(raw_lines, raw_lengths, i) ==
    IF i > Len(raw_lines) THEN <<>>
    ELSE SubSeq(raw_lines[i], 1, raw_lengths[i])
         \o unfold_from(raw_lines, raw_lengths, i + 1)

\* value_unfold(raw_lines, raw_lengths, &unfolded)
value_unfold(raw_lines, raw_lengths) == unfold_from(raw_lines, raw_lengths, 1)

(* ------------------------------------------------------------------------ *)
(* Value object                                                             *)
(* ------------------------------------------------------------------------ *)

\* a null pointer: no comment, no buffer
NULL == 0

\* the line terminator simplebuffer_add_cr appends
ENDLNSTR == <<"\n">>

\* the lines of the comment objects a caller can attach, by handle
\* (ini_comment_get_numlines, ini_comment_get_line)
comment_lines(ic) ==
    IF ic = 1 THEN << <<"#", "1">>, <<"#">> >>
    ELSE IF ic = 2 THEN << <<";">> >>
    ELSE <<>>

\* struct value_obj; allocated is FALSE while no object exists
NoValue ==
    [allocated   |-> FALSE,
     raw_lines   |-> <<>>,
     raw_lengths |-> <<>>,
     unfolded    |-> <<>>,
     origin      |-> 0,
     line        |-> 0,
     keylen      |-> 0,
     boundary    |-> 0,
     ic          |-> NULL]

\* the handles of the comment objects that exist
CommentHandles == {1, 2}

EINVAL == 22

\* a count of heap blocks: value_obj structures, simple buffers, arrays
\* and fragment copies held by the arrays
Blocks(v, s, r, c) ==
    [value_obj |-> v, simplebuffer |-> s, ref_array |-> r, copy |-> c]

NoBlocks == Blocks(0, 0, 0, 0)

BlocksAdd(x, y) ==
    Blocks(x.value_obj + y.value_obj, x.simplebuffer + y.simplebuffer,
           x.ref_array + y.ref_array, x.copy + y.copy)

BlocksSub(x, y) ==
    Blocks(x.value_obj - y.value_obj, x.simplebuffer - y.simplebuffer,
           x.ref_array - y.ref_array, x.copy - y.copy)

\* value_destroy of an object that holds arrays arrays (0 while raw_lines
\* and raw_lengths are NULL, else 2): the arrays with the copies in them,
\* the buffer and the structure are released, the comment is destroyed
value_destroy(obj, arrays) ==
    [released     |-> Blocks(1, 1, arrays, Len(obj.raw_lines)),
     ic_destroyed |-> obj.ic]

\* value_create_from_refarray: the arrays are taken as they are and the
\* canonical buffer is built by value_unfold.  fail is the call that fails:
\* 1 malloc of the structure, 2 simplebuffer_alloc in value_unfold,
\* 3 simplebuffer_add_raw in value_unfold, 0 none.  live counts the blocks
\* the call allocated and did not release.
value_create_from_refarray(raw_lines, raw_lengths, line, origin, key_len, fold_boundary, ic, fail) ==
    IF fail = 1
    THEN [error |-> ENOMEM, vo |-> NoValue, live |-> NoBlocks,
          ic_destroyed |-> NULL]
    ELSE IF fail = 2
    THEN [error |-> ENOMEM, vo |-> NoValue, live |-> Blocks(1, 0, 0, 0),
          ic_destroyed |-> NULL]
    ELSE IF fail = 3 /\ Len(raw_lines) > 0
    THEN [error |-> ENOMEM, vo |-> NoValue,
          live |-> BlocksSub(Blocks(1, 1, 0, 0), Blocks(0, 1, 0, 0)),
          ic_destroyed |-> NULL]
    ELSE [error |-> EOK,
          vo    |-> [allocated   |-> TRUE,
                     raw_lines   |-> raw_lines,
                     raw_lengths |-> raw_lengths,
                     unfolded    |-> value_unfold(raw_lines, raw_lengths),
                     origin      |-> origin,
                     line        |-> line,
                     keylen      |-> key_len,
                     boundary    |-> fold_boundary,
                     ic          |-> ic],
          live  |-> Blocks(1, 1, 0, 0),
          ic_destroyed |-> NULL]

\* value_create_new once the structure new_vo is filled, its arrays still
\* NULL, f being what value_fold does into new arrays: when
\* value_create_arrays (fail = 4) or value_fold fails the object is
\* destroyed by value_destroy and no handle is returned
create_new_arrays(new_vo, f, fail) ==
    IF fail = 4
    THEN [error |-> ENOMEM, vo |-> NoValue,
          live  |-> BlocksSub(Blocks(1, 1, 0, 0),
                              value_destroy(new_vo, 0).released),
          ic_destroyed |-> value_destroy(new_vo, 0).ic_destroyed]
    ELSE IF f.error # EOK
    THEN [error |-> f.error, vo |-> NoValue,
          live  |-> BlocksSub(Blocks(1, 1, 2, Len(f.raw_lines)),
                              value_destroy(f.vo, 2).released),
          ic_destroyed |-> value_destroy(f.vo, 2).ic_destroyed]
    ELSE [error |-> EOK, vo |-> f.vo,
          live  |-> Blocks(1, 1, 2, Len(f.raw_lines)),
          ic_destroyed |-> NULL]

\* the structure new_vo with the arrays value_fold filled
create_new_folded(new_vo, f) ==
    [error |-> f.error, raw_lines |-> f.raw_lines,
     vo    |-> [new_vo EXCEPT !.raw_lines = f.raw_lines,
                              !.raw_lengths = f.raw_lengths]]

\* value_create_new: the first length bytes of strvalue become the canonical
\* buffer and the fragments are built by value_fold into new arrays.  fail
\* is the call that fails: 1 simplebuffer_alloc, 2 simplebuffer_add_raw,
\* 3 malloc of the structure, 4 value_create_arrays, 0 none; value_fold
\* fails by itself when save_portion does.
value_create_new(strvalue, length, origin, key_len, fold_boundary, ic, fail) ==
    IF fail = 1
    THEN [error |-> ENOMEM, vo |-> NoValue, live |-> NoBlocks,
          ic_destroyed |-> NULL]
    ELSE IF fail = 2 \/ fail = 3
    THEN [error |-> ENOMEM, vo |-> NoValue,
          live |-> BlocksSub(Blocks(0, 1, 0, 0), Blocks(0, 1, 0, 0)),
          ic_destroyed |-> NULL]
    ELSE create_new_arrays(
             [allocated   |-> TRUE,
              raw_lines   |-> <<>>,
              raw_lengths |-> <<>>,
              unfolded    |-> SubSeq(strvalue, 1, length),
              origin      |-> origin,
              line        |-> 0,
              keylen      |-> key_len,
              boundary    |-> fold_boundary,
              ic          |-> ic],
             create_new_folded(
                 [allocated   |-> TRUE,
                  raw_lines   |-> <<>>,
                  raw_lengths |-> <<>>,
                  unfolded    |-> SubSeq(strvalue, 1, length),
                  origin      |-> origin,
                  line        |-> 0,
                  keylen      |-> key_len,
                  boundary    |-> fold_boundary,
                  ic          |-> ic],
                 value_fold(SubSeq(strvalue, 1, length), key_len,
                            fold_boundary, <<>>, <<>>)),
             fail)

\* value_extract_comment: the comment goes to the caller in *ic and the
\* reference of the object is set to NULL
value_extract_comment(obj) ==
    [error |-> EOK, vo |-> [obj EXCEPT !.ic = NULL], ic |-> obj.ic]

\* value_put_comment: a NULL comment is refused; the comment attached so
\* far is destroyed unless it is the one being put
value_put_comment(obj, ic) ==
    IF ic = NULL
    THEN [error |-> EINVAL, vo |-> obj, ic_destroyed |-> NULL]
    ELSE [error |-> EOK, vo |-> [obj EXCEPT !.ic = ic],
          ic_destroyed |-> IF obj.ic # ic THEN obj.ic ELSE NULL]

\* value_get_concatenated: the canonical buffer itself
value_get_concatenated(obj) == obj.unfolded

\* value_get_origin
value_get_origin(obj) == obj.origin

\* value_get_line
value_get_line(obj) == obj.line

\* value_set_keylen without the fold: only the key length is stored
value_set_keylen_nofold(obj, key_len) ==
    [error |-> EOK, vo |-> [obj EXCEPT !.keylen = key_len]]

\* value_set_keylen: stores the key length and folds the canonical buffer
\* again into the arrays of the object
value_set_keylen(obj, key_len) ==
    LET f == value_fold(obj.unfolded, key_len, obj.boundary,
                        obj.raw_lines, obj.raw_lengths)
    IN  [error |-> f.error,
         vo    |-> [obj EXCEPT !.keylen = key_len,
                               !.raw_lines = f.raw_lines,
                               !.raw_lengths = f.raw_lengths]]

\* value_update: replaces the canonical buffer, the origin and the boundary
\* and folds again into the arrays of the object
value_update(obj, value, length, origin, new_boundary) ==
    LET oneline == SubSeq(value, 1, length)
        f == value_fold(oneline, obj.keylen, new_boundary,
                        obj.raw_lines, obj.raw_lengths)
    IN  [error |-> f.error,
         vo    |-> [obj EXCEPT !.origin = origin,
                               !.unfolded = oneline,
                               !.boundary = new_boundary,
                               !.raw_lines = f.raw_lines,
                               !.raw_lengths = f.raw_lengths]]

\* the comment loop of value_serialize from line i on (1-based here)
RECURSIVE serialize_comment(_, _)
serialize_comment(lines, i) ==
    IF i > Len(lines) THEN <<>>
    ELSE lines[i] \o ENDLNSTR \o serialize_comment(lines, i + 1)

\* the fragment loop of value_serialize from element i on (1-based here)
RECURSIVE serialize_lines(_, _, _)
serialize_lines(raw_lines, raw_lengths, i) ==
    IF i > Len(raw_lines) THEN <<>>
    ELSE SubSeq(raw_lines[i], 1, raw_lengths[i]) \o ENDLNSTR
         \o serialize_lines(raw_lines, raw_lengths, i + 1)

\* whether call fail of value_serialize is made at all: 1 is
\* simplebuffer_alloc, 2 the calls that add the comment, 3 the calls that
\* add the key and the equal sign, 4 the calls that add the fragments
serialize_fails(obj, fail) ==
    \/ fail = 1
    \/ fail = 2 /\ obj.ic # NULL
    \/ fail = 3
    \/ fail = 4 /\ Len(obj.raw_lines) > 0

\* value_serialize adding the whole key instead of its first keylen bytes
value_serialize_wholekey(obj, key, fail) ==
    [error |-> EOK,
     sbobj |-> (IF obj.ic # NULL
                THEN serialize_comment(comment_lines(obj.ic), 1)
                ELSE <<>>)
               \o key
               \o INI_EQUAL_SIGN
               \o serialize_lines(obj.raw_lines, obj.raw_lengths, 1),
     live  |-> NoBlocks]

\* value_serialize: the buffer returned in *sbobj.  When a call fails the
\* new buffer, if it was allocated, is freed and *sbobj is not written
\* (sbobj is empty here).  live counts the blocks the call allocated and
\* neither released nor returned.
value_serialize(obj, key, fail) ==
    IF serialize_fails(obj, fail)
    THEN [error |-> ENOMEM, sbobj |-> <<>>,
          live  |-> IF fail = 1 THEN NoBlocks
                    ELSE BlocksSub(Blocks(0, 1, 0, 0), Blocks(0, 1, 0, 0))]
    ELSE [error |-> EOK,
          sbobj |-> (IF obj.ic # NULL
                     THEN serialize_comment(comment_lines(obj.ic), 1)
                     ELSE <<>>)
                    \o SubSeq(key, 1, obj.keylen)
                    \o INI_EQUAL_SIGN
                    \o serialize_lines(obj.raw_lines, obj.raw_lengths, 1),
          live  |-> NoBlocks]

(* ------------------------------------------------------------------------ *)
(* State                                                                    *)
(* ------------------------------------------------------------------------ *)

VARIABLES
    vo,          \* the value object of the caller, NoValue while there is none
    call,        \* the last call made on it: operation, arguments, results
    S,           \* the canonical string of a fold run step by step
    key_length,  \* the key length given to that fold
    boundary,    \* the boundary given to that fold
    pc,          \* "idle", "entry", "loop", "folded", "failed", "unfolded"
    fold,        \* the locals and arrays of the running value_fold
    roundtrip,   \* the buffer value_unfold built from the fragments
    owned,       \* the comments the caller owns
    destroyed,   \* per comment, the calls of ini_comment_destroy on it
    heap         \* the blocks held by the object or by nobody

objvars == <<vo, call>>

lifevars == <<owned, destroyed, heap>>

foldvars == <<S, key_length, boundary, pc, fold, roundtrip>>

vars ==
    <<vo, call, S, key_length, boundary, pc, fold, roundtrip, owned,
      destroyed, heap>>

(* ------------------------------------------------------------------------ *)
(* The value object under the calls of its owner                            *)
(* ------------------------------------------------------------------------ *)

\* longest value a caller passes to value_create_new and value_update
MaxValueLen == 2

\* the value of the basic fold scenario: "aaaa bbbb cccc"
ScenarioValue ==
    <<"a", "a", "a", "a", " ", "b", "b", "b", "b", " ", "c", "c", "c", "c">>

\* values a caller passes: every short one, one with three tokens, and the
\* scenario value
Values ==
    StringsUpTo({"a", " "}, MaxValueLen)
        \cup {<<"a", " ", "a", "\t", "a">>, ScenarioValue}

\* key lengths and boundaries a caller passes
KeyLens == 0..MaxKeyLen

Boundaries == {0, 4, 10}

\* origins and line numbers a caller passes
Origins == {1, 2}

Lines == {7}

\* comments a caller passes: none or the two-line one
Comments == {NULL, 1}

\* key names a caller serializes under
Keys == { <<"f", "o", "o">>, <<"k", "e", "y", "1">> }

\* fragments as the file reader hands them over: the first does not begin
\* with whitespace, continuation lines do
FileFragments ==
    { << <<"a">> >>,
      << <<>> >>,
      << <<"a", " ", "a">>, <<" ", "a">> >>,
      << <<"a">>, <<"\t", "a", "a">>, <<" ", "a">> >> }

\* the lengths of the fragments of an array
LengthsOf(raw_lines) == [i \in 1..Len(raw_lines) |-> Len(raw_lines[i])]

\* a call: the operation, the error it returned, its key_len or key
\* argument, and the buffer it returned in *sbobj
Called(op, error, key_len, key, sbobj) ==
    [op |-> op, error |-> error, key_len |-> key_len, key |-> key,
     sbobj |-> sbobj]

NoCall == Called("none", EOK, 0, <<>>, <<>>)

ObjInit ==
    /\ vo = NoValue
    /\ call = NoCall
    /\ owned = CommentHandles
    /\ destroyed = [c \in CommentHandles |-> 0]
    /\ heap = NoBlocks

\* ini_comment_destroy(ic) counted; it does nothing on NULL
ini_comment_destroy(counts, ic) ==
    IF ic = NULL THEN counts ELSE [counts EXCEPT ![ic] = @ + 1]

\* the comments among comments the caller can pass: none, or one it owns
\* that was not destroyed
Passable(comments) ==
    {c \in comments : c = NULL \/ (c \in owned /\ destroyed[c] = 0)}

\* a call of value_create_new; on success the comment belongs to the object
CreateNewCall(strvalue, origin, key_len, fold_boundary, ic, fail) ==
    LET r == value_create_new(strvalue, Len(strvalue), origin, key_len,
                              fold_boundary, ic, fail)
    IN  /\ vo' = r.vo
        /\ call' = Called("value_create_new", r.error, key_len, <<>>, <<>>)
        /\ heap' = BlocksAdd(heap, r.live)
        /\ destroyed' = ini_comment_destroy(destroyed, r.ic_destroyed)
        /\ owned' = IF r.error = EOK THEN owned \ {ic} ELSE owned

\* a call of value_create_from_refarray on arrays the caller filled; on
\* success the arrays, their fragments and the comment belong to the
\* object, on failure the caller destroys the arrays.  A failure that
\* leaves a block behind is followed only while fewer than MaxLeaks
\* structures are left so.
CreateFromRefarrayCall(raw_lines, line, origin, key_len, fold_boundary, ic, fail) ==
    LET r == value_create_from_refarray(raw_lines, LengthsOf(raw_lines), line,
                                        origin, key_len, fold_boundary, ic,
                                        fail)
        adopted == IF r.error = EOK
                   THEN Blocks(0, 0, 2, Len(raw_lines))
                   ELSE NoBlocks
    IN  /\ (r.error # EOK /\ r.live # NoBlocks) => heap.value_obj < MaxLeaks
        /\ vo' = r.vo
        /\ call' = Called("value_create_from_refarray", r.error, key_len,
                         <<>>, <<>>)
        /\ heap' = BlocksAdd(BlocksAdd(heap, r.live), adopted)
        /\ destroyed' = ini_comment_destroy(destroyed, r.ic_destroyed)
        /\ owned' = IF r.error = EOK THEN owned \ {ic} ELSE owned

\* a call of value_serialize under a key at least keylen bytes long; the
\* buffer it returns belongs to the caller
SerializeCall(key, fail) ==
    /\ Len(key) >= vo.keylen
    /\ LET r == value_serialize(vo, key, fail)
       IN  /\ call' = Called("value_serialize", r.error, 0, key, r.sbobj)
           /\ heap' = BlocksAdd(heap, r.live)
    /\ UNCHANGED <<vo, owned, destroyed>>

CreateNew ==
    /\ ~vo.allocated
    /\ \E strvalue \in Values, origin \in Origins, key_len \in KeyLens,
          fold_boundary \in Boundaries, ic \in Passable(Comments) :
           CreateNewCall(strvalue, origin, key_len, fold_boundary, ic, 0)
    /\ UNCHANGED foldvars

CreateFromRefarray ==
    /\ ~vo.allocated
    /\ \E raw_lines \in FileFragments, origin \in Origins, line \in Lines,
          key_len \in KeyLens, fold_boundary \in Boundaries,
          ic \in Passable(Comments) :
           CreateFromRefarrayCall(raw_lines, line, origin, key_len,
                                  fold_boundary, ic, 0)
    /\ UNCHANGED foldvars

\* value_update and value_set_keylen replace the copies in the arrays (and
\* value_update the buffer) by as many new ones as the fold saves
Update ==
    /\ vo.allocated
    /\ \E value \in Values, origin \in Origins, new_boundary \in Boundaries :
           LET r == value_update(vo, value, Len(value), origin, new_boundary)
           IN  /\ vo' = r.vo
               /\ call' = Called("value_update", r.error, 0, <<>>, <<>>)
               /\ heap' = [heap EXCEPT !.copy = @ - Len(vo.raw_lines)
                                                  + Len(r.vo.raw_lines)]
    /\ UNCHANGED <<owned, destroyed>>
    /\ UNCHANGED foldvars

SetKeylen ==
    /\ vo.allocated
    /\ \E key_len \in KeyLens :
           LET r == value_set_keylen(vo, key_len)
           IN  /\ vo' = r.vo
               /\ call' = Called("value_set_keylen", r.error, key_len, <<>>, <<>>)
               /\ heap' = [heap EXCEPT !.copy = @ - Len(vo.raw_lines)
                                                  + Len(r.vo.raw_lines)]
    /\ UNCHANGED <<owned, destroyed>>
    /\ UNCHANGED foldvars

Serialize ==
    /\ vo.allocated
    /\ \E key \in Keys : SerializeCall(key, 0)
    /\ UNCHANGED foldvars

Destroy ==
    /\ vo.allocated
    /\ LET d == value_destroy(vo, 2)
       IN  /\ heap' = BlocksSub(heap, d.released)
           /\ destroyed' = ini_comment_destroy(destroyed, d.ic_destroyed)
    /\ vo' = NoValue
    /\ call' = Called("value_destroy", EOK, 0, <<>>, <<>>)
    /\ UNCHANGED owned
    /\ UNCHANGED foldvars

Init ==
    /\ ObjInit
    /\ S = <<>>
    /\ key_length = 0
    /\ boundary = 0
    /\ pc = "idle"
    /\ fold = fold_entry(0, <<>>, <<>>)
    /\ roundtrip = <<>>

Next ==
    \/ CreateNew
    \/ CreateFromRefarray
    \/ Update
    \/ SetKeylen
    \/ Serialize
    \/ Destroy

Spec == Init /\ [][Next]_vars

(* ------------------------------------------------------------------------ *)
(* The life of the object, its comment and its blocks, with failing calls   *)
(* ------------------------------------------------------------------------ *)

\* values a caller passes: one that folds and one that begins with a space
LifeValues == { <<"a">>, <<" ", "a">> }

LifeKeyLens == {0}

LifeBoundaries == {4}

LifeComments == {NULL, 1, 2}

\* the calls that can be made to fail, 0 for none
CreateNewFails == 0..4

RefarrayFails == 0..3

SerializeFails == 0..4

LifeCreateNew ==
    /\ ~vo.allocated
    /\ \E strvalue \in LifeValues, origin \in Origins,
          key_len \in LifeKeyLens, fold_boundary \in LifeBoundaries,
          ic \in Passable(LifeComments), fail \in CreateNewFails :
           CreateNewCall(strvalue, origin, key_len, fold_boundary, ic, fail)
    /\ UNCHANGED foldvars

LifeCreateFromRefarray ==
    /\ ~vo.allocated
    /\ \E raw_lines \in FileFragments, origin \in Origins, line \in Lines,
          key_len \in LifeKeyLens, fold_boundary \in LifeBoundaries,
          ic \in Passable(LifeComments), fail \in RefarrayFails :
           CreateFromRefarrayCall(raw_lines, line, origin, key_len,
                                  fold_boundary, ic, fail)
    /\ UNCHANGED foldvars

LifeSerialize ==
    /\ vo.allocated
    /\ \E key \in Keys, fail \in SerializeFails : SerializeCall(key, fail)
    /\ UNCHANGED foldvars

\* value_put_comment with no comment, a comment of the caller or the
\* comment already attached; on success the comment belongs to the object
PutComment ==
    /\ vo.allocated
    /\ \E ic \in Passable(LifeComments) \cup {vo.ic} :
           LET r == value_put_comment(vo, ic)
           IN  /\ vo' = r.vo
               /\ call' = Called("value_put_comment", r.error, 0, <<>>, <<>>)
               /\ destroyed' = ini_comment_destroy(destroyed, r.ic_destroyed)
               /\ owned' = IF r.error = EOK THEN owned \ {ic} ELSE owned
    /\ UNCHANGED heap
    /\ UNCHANGED foldvars

\* value_extract_comment; the comment returned belongs to the caller
ExtractComment ==
    /\ vo.allocated
    /\ LET r == value_extract_comment(vo)
       IN  /\ vo' = r.vo
           /\ call' = Called("value_extract_comment", r.error, 0, <<>>, <<>>)
           /\ owned' = owned \cup ({r.ic} \ {NULL})
    /\ UNCHANGED <<destroyed, heap>>
    /\ UNCHANGED foldvars

LifeNext ==
    \/ LifeCreateNew
    \/ LifeCreateFromRefarray
    \/ PutComment
    \/ ExtractComment
    \/ LifeSerialize
    \/ Destroy

LifeSpec == Init /\ [][LifeNext]_vars

(* ------------------------------------------------------------------------ *)
(* The folding engine run step by step on one input                         *)
(* ------------------------------------------------------------------------ *)

FoldInit ==
    /\ ObjInit
    /\ S \in StringsUpTo(Bytes, MaxLen)
    /\ key_length \in 0..MaxKeyLen
    /\ boundary \in 0..MaxBoundary
    /\ pc = "entry"
    /\ fold = fold_entry(0, <<>>, <<>>)
    /\ roundtrip = <<>>

\* value_fold up to the while loop
FoldEnter ==
    /\ pc = "entry"
    /\ fold' = fold_entry(boundary, fold.raw_lines, fold.raw_lengths)
    /\ pc' = "loop"
    /\ UNCHANGED <<S, key_length, boundary, roundtrip, vo, call>>
    /\ UNCHANGED lifevars

\* one iteration of the while loop
FoldIterate ==
    /\ pc = "loop"
    /\ fold' = fold_iteration(S, key_length, fold)
    /\ pc' = IF fold'.error # EOK THEN "failed"
             ELSE IF fold'.done THEN "folded" ELSE "loop"
    /\ UNCHANGED <<S, key_length, boundary, roundtrip, vo, call>>
    /\ UNCHANGED lifevars

\* value_unfold on the arrays the fold filled
Unfold ==
    /\ pc = "folded"
    /\ roundtrip' = value_unfold(fold.raw_lines, fold.raw_lengths)
    /\ pc' = "unfolded"
    /\ UNCHANGED <<S, key_length, boundary, fold, vo, call>>
    /\ UNCHANGED lifevars

FoldNext == FoldEnter \/ FoldIterate \/ Unfold

FoldSpec == FoldInit /\ [][FoldNext]_vars

(* ------------------------------------------------------------------------ *)
(* Vocabulary of the properties of the folding engine                       *)
(* ------------------------------------------------------------------------ *)

Max(a, b) == IF a >= b THEN a ELSE b

\* boundary after 0 is normalised to 1
Width == Max(boundary, 1)

\* first-line budget: Width - key_length - 3, or 0 if that is not positive
Budget == Max(Width - key_length - 3, 0)

\* length of the separator-free run of s that starts at byte i (1-based)
RECURSIVE RunLen(_, _)
RunLen(s, i) ==
    IF i > Len(s) \/ IsSeparator(s[i]) THEN 0 ELSE 1 + RunLen(s, i + 1)

\* length of the longest whitespace-free token of s
MaxTokenLen(s) ==
    LET lens == {RunLen(s, i) : i \in 1..Len(s)} \cup {0}
    IN  CHOOSE n \in lens : \A m \in lens : m <= n

\* the first token of s: the bytes up to the first separator or the end
FirstToken(s) == SubSeq(s, 1, RunLen(s, 1))

HasSeparator(s) == \E i \in 1..Len(s) : IsSeparator(s[i])

\* value_fold has returned EOK
Completed == pc \in {"folded", "unfolded"}

Fragments == fold.raw_lines

\* bytes of s at offset c that fragment f stands for: all of f, or f without
\* the synthetic leading space; -1 if f is neither
Consumed(s, c, f) ==
    IF c + Len(f) <= Len(s) /\ Slice(s, c, Len(f)) = f
    THEN Len(f)
    ELSE IF /\ Len(f) >= 1
            /\ f[1] = " "
            /\ c + Len(f) - 1 <= Len(s)
            /\ Slice(s, c, Len(f) - 1) = Tail(f)
         THEN Len(f) - 1
         ELSE -1

\* offsets in s at which the fragments end, <<-1>> from the first fragment
\* that is not the next slice of s
RECURSIVE Cuts(_, _, _)
Cuts(s, frags, c) ==
    IF frags = <<>> THEN <<>>
    ELSE LET n == Consumed(s, c, Head(frags))
         IN  IF n < 0 THEN <<-1>>
             ELSE <<c + n>> \o Cuts(s, Tail(frags), c + n)

\* physical width of line i: the first line carries the key and " = "
LineWidth(i) ==
    Len(Fragments[i]) + (IF i = 1 THEN key_length + INI_FOLDING_OVERHEAD ELSE 0)

\* a fragment with no space or tab other than possibly its first byte
Unbreakable(f) == \A j \in 2..Len(f) : ~IsSeparator(f[j])

(* ------------------------------------------------------------------------ *)
(* Properties of the folding engine                                         *)
(* ------------------------------------------------------------------------ *)

\* C1: when no token of S is longer than the first-line budget or than the
\* subsequent-line budget, value_fold returns and value_unfold of its
\* fragments gives back S byte for byte.
C1_RoundTrip ==
    (/\ MaxTokenLen(S) <= Budget
     /\ MaxTokenLen(S) <= Width
     /\ pc \in {"failed", "unfolded"})
    => (pc = "unfolded" /\ roundtrip = S)

\* C2: after a completed fold every physical line is at most Width bytes
\* wide, except a line whose fragment is a single unbreakable token.
C2_WidthBound ==
    Completed =>
        \A i \in 1..Len(Fragments) :
            LineWidth(i) <= Width \/ Unbreakable(Fragments[i])

\* C3: after a completed fold the fragments, without their synthetic leading
\* space, are consecutive slices of S that cover S, and no cut between two
\* fragments separates two non-whitespace bytes.
C3_NoSplitInsideWord ==
    Completed =>
        LET cuts == Cuts(S, Fragments, 0)
        IN  /\ Len(cuts) = Len(Fragments)
            /\ \A i \in 1..Len(cuts) : cuts[i] >= 0
            /\ Len(cuts) >= 1
            /\ cuts[Len(cuts)] = Len(S)
            /\ \A i \in 1..Len(cuts) :
                   (0 < cuts[i] /\ cuts[i] < Len(S))
                   => (IsSeparator(S[cuts[i]]) \/ IsSeparator(S[cuts[i] + 1]))

\* a completed fold of a string with a token wider than every line, cut in
\* at least three fragments
C3_Witness ==
    /\ pc = "folded"
    /\ MaxTokenLen(S) > Width
    /\ Len(Fragments) >= 3
    /\ \E i \in 1..(Len(S) - 1) : ~IsSeparator(S[i]) /\ ~IsSeparator(S[i + 1])

\* C6: for every input value_fold reaches the end of the buffer and
\* returns, having emitted at most len(S) + 2 fragments.
C6_Termination ==
    /\ pc # "failed"
    /\ Len(Fragments) <= Len(S) + 2

\* C8: a non-empty S without space or tab and shorter than Width folds to
\* exactly one fragment, S itself.
C8_SingleFragment ==
    (/\ Completed
     /\ S # <<>>
     /\ ~HasSeparator(S)
     /\ Len(S) < Width)
    => Fragments = <<S>>

\* C9 as stated: when S begins with a non-whitespace byte and its first token
\* is longer than the first-line budget, the first fragment is that token.
C9_FirstTokenOnFirstLine ==
    (/\ Completed
     /\ S # <<>>
     /\ ~IsSeparator(S[1])
     /\ Len(FirstToken(S)) > Budget)
    => Fragments[1] = FirstToken(S)

\* C9 amended: when S begins with a non-whitespace byte and its first token
\* is longer than the first-line budget, then with a positive budget the
\* first fragment is that whole token, and with a budget of 0 the first
\* fragment is empty and the second begins with a synthetic space followed
\* by that whole token.
C9_FirstTokenKeptWhole ==
    (/\ Completed
     /\ S # <<>>
     /\ ~IsSeparator(S[1])
     /\ Len(FirstToken(S)) > Budget)
    => IF Budget > 0
       THEN Fragments[1] = FirstToken(S)
       ELSE /\ Fragments[1] = <<>>
            /\ Len(Fragments) >= 2
            /\ LET t == <<" ">> \o FirstToken(S)
               IN  /\ Len(Fragments[2]) >= Len(t)
                   /\ SubSeq(Fragments[2], 1, Len(t)) = t

\* a completed fold with a positive first-line budget, a first token longer
\* than it and more text after the token
C9_Witness ==
    /\ pc = "folded"
    /\ Budget > 0
    /\ S # <<>>
    /\ ~IsSeparator(S[1])
    /\ Len(FirstToken(S)) > Budget
    /\ Len(FirstToken(S)) < Len(S)
    /\ Fragments[1] = FirstToken(S)

\* fragment i carries a synthetic leading space: it stands for one byte of
\* S less than it is long
Synthetic(cuts, i) ==
    cuts[i] - (IF i = 1 THEN 0 ELSE cuts[i - 1]) = Len(Fragments[i]) - 1

\* C13: after a completed fold a synthetic space is found on the second
\* fragment only, and only when the first fragment is empty, the first-line
\* budget is 0 and S begins with a non-whitespace byte; with a positive
\* budget the fragments concatenated are S; every stored length is the
\* length of its fragment.
C13_SyntheticSpaceConfined ==
    Completed =>
        LET cuts == Cuts(S, Fragments, 0)
        IN  /\ Len(cuts) = Len(Fragments)
            /\ \A i \in 1..Len(cuts) : cuts[i] >= 0
            /\ \A i \in 1..Len(cuts) :
                   Synthetic(cuts, i) =>
                       /\ i = 2
                       /\ Fragments[1] = <<>>
                       /\ Budget = 0
                       /\ Width <= key_length + INI_FOLDING_OVERHEAD
                       /\ S # <<>>
                       /\ ~IsSeparator(S[1])
            /\ Width > key_length + INI_FOLDING_OVERHEAD
                   => Concat(Fragments) = S
            /\ Len(fold.raw_lengths) = Len(Fragments)
            /\ \A i \in 1..Len(Fragments) :
                   fold.raw_lengths[i] = Len(Fragments[i])

\* a completed fold with no room on the first line, whose second fragment
\* begins with the synthetic space and is followed by further fragments
C13_Witness ==
    /\ pc = "folded"
    /\ Width <= key_length + INI_FOLDING_OVERHEAD
    /\ Len(S) >= 3
    /\ ~IsSeparator(S[1])
    /\ Len(Fragments) >= 4
    /\ Fragments[1] = <<>>
    /\ Fragments[2][1] = " "
    /\ Concat(Fragments) = <<" ">> \o S


(* ------------------------------------------------------------------------ *)
(* Properties of the value object                                           *)
(* ------------------------------------------------------------------------ *)

\* the last call was op and returned EOK
Returned(op) == call.op = op /\ call.error = EOK

\* the lines of the comment attached to obj, none if there is no comment
AttachedLines(obj) == IF obj.ic = NULL THEN <<>> ELSE comment_lines(obj.ic)

\* C4: the buffer value_serialize returns is the comment lines, each with a
\* terminator, then the first key_length bytes of the key, then " = ", then
\* the fragments with their stored lengths, each with a terminator, and
\* nothing else.
C4_Serialized ==
    Returned("value_serialize") =>
        LET cl == AttachedLines(vo)
        IN  call.sbobj =
                Concat([i \in 1..Len(cl) |-> cl[i] \o <<"\n">>])
                \o [i \in 1..vo.keylen |-> call.key[i]]
                \o <<" ", "=", " ">>
                \o Concat([i \in 1..Len(vo.raw_lines) |->
                              SubSeq(vo.raw_lines[i], 1, vo.raw_lengths[i])
                              \o <<"\n">>])

\* key "foo", key length 3, boundary 10, value "aaaa bbbb cccc", no comment:
\* the buffer is "foo = aaaa", terminator, " bbbb cccc", terminator
C4_Witness ==
    /\ Returned("value_serialize")
    /\ vo.ic = NULL
    /\ vo.keylen = 3
    /\ vo.boundary = 10
    /\ vo.unfolded = ScenarioValue
    /\ call.key = <<"f", "o", "o">>
    /\ call.sbobj = <<"f", "o", "o", " ", "=", " ", "a", "a", "a", "a", "\n",
                      " ", "b", "b", "b", "b", " ", "c", "c", "c", "c", "\n">>

\* C5: after a successful value_create_new, value_update or value_set_keylen
\* the fragments and the lengths of the object are those of a fold of its
\* canonical value with its key length and boundary into empty arrays, and
\* folding once more into the arrays of the object leaves them as they are.
C5_NeverStale ==
    (\/ Returned("value_create_new")
     \/ Returned("value_update")
     \/ Returned("value_set_keylen"))
    => LET fresh == value_fold(vo.unfolded, vo.keylen, vo.boundary,
                               <<>>, <<>>)
           again == value_fold(vo.unfolded, vo.keylen, vo.boundary,
                               vo.raw_lines, vo.raw_lengths)
       IN  /\ vo.allocated
           /\ fresh.error = EOK
           /\ vo.raw_lines = fresh.raw_lines
           /\ vo.raw_lengths = fresh.raw_lengths
           /\ again.raw_lines = vo.raw_lines
           /\ again.raw_lengths = vo.raw_lengths

\* an object built from the fragments of a file and then updated to the
\* scenario value, which folds into more than one fragment
C5_Witness ==
    /\ Returned("value_update")
    /\ vo.line = 7
    /\ vo.unfolded = ScenarioValue
    /\ vo.boundary = 10
    /\ Len(vo.raw_lines) >= 2

\* C7: after a successful value_create_new or value_update with the empty
\* string the object has exactly one fragment, of length 0.
C7_EmptyValue ==
    (/\ Returned("value_create_new") \/ Returned("value_update")
     /\ vo.unfolded = <<>>)
    => (Len(vo.raw_lines) = 1 /\ vo.raw_lengths = <<0>>)

\* C10: a value_set_keylen(vo, k) step leaves the canonical value, the
\* origin, the source line, the boundary and the comment as they were and
\* stores k; when it returns EOK the fragments are the fold of the unchanged
\* canonical value for key length k, so the first one fits the first-line
\* budget max(boundary, 1) - k - 3 (0 if not positive) unless it is a single
\* unbreakable token.
C10_SetKeylenFrame ==
    [][call'.op = "value_set_keylen" =>
         /\ value_get_concatenated(vo') = value_get_concatenated(vo)
         /\ value_get_origin(vo') = value_get_origin(vo)
         /\ value_get_line(vo') = value_get_line(vo)
         /\ vo'.boundary = vo.boundary
         /\ vo'.ic = vo.ic
         /\ vo'.allocated
         /\ vo'.keylen = call'.key_len
         /\ call'.error = EOK =>
                LET f == value_fold(vo.unfolded, call'.key_len, vo.boundary,
                                    <<>>, <<>>)
                    budget == Max(Max(vo.boundary, 1) - call'.key_len - 3, 0)
                IN  /\ vo'.raw_lines = f.raw_lines
                    /\ vo'.raw_lengths = f.raw_lengths
                    /\ \/ Len(vo'.raw_lines[1]) <= budget
                       \/ Unbreakable(vo'.raw_lines[1])
       ]_vars

\* an object with a comment, built from the fragments of a file, updated to
\* a value of three tokens and then given a key length that leaves no room
\* on the first line
C10_Witness ==
    /\ Returned("value_set_keylen")
    /\ call.key_len = 3
    /\ vo.keylen = 3
    /\ vo.boundary = 4
    /\ vo.line = 7
    /\ vo.ic # NULL
    /\ vo.unfolded = <<"a", " ", "a", "\t", "a">>
    /\ vo.raw_lines = << <<>>, <<" ", "a", " ", "a">>, <<"\t", "a">> >>

(* ------------------------------------------------------------------------ *)
(* Claims about the comment and the blocks of the object                    *)
(* ------------------------------------------------------------------------ *)

\* C11: every comment has exactly one owner, the caller or the object, and
\* is destroyed at most once and only by its owner: a comment the caller
\* owns is neither attached to the object nor destroyed by a call on the
\* object (so a constructor that returns an error leaves the comment it
\* was passed alone), a comment attached to the object is not destroyed,
\* and a comment that nobody owns is one that was destroyed exactly once.
C11_CommentOwnership ==
    \A c \in CommentHandles :
        /\ destroyed[c] <= 1
        /\ ~(c \in owned /\ vo.ic = c)
        /\ c \in owned => destroyed[c] = 0
        /\ vo.ic = c => destroyed[c] = 0
        /\ destroyed[c] = 0 => (c \in owned \/ vo.ic = c)

\* C12: when a call fails inside value_create_from_refarray,
\* value_create_new or value_serialize, the operation returns the error,
\* writes no output handle, and the blocks that are live after the call
\* are those that were live before it.
C12_NoLeakOnFailure ==
    [][ (/\ call'.op \in {"value_create_from_refarray", "value_create_new",
                          "value_serialize"}
         /\ call'.error # EOK)
        => /\ heap' = heap
           /\ vo' = vo
           /\ call'.sbobj = <<>>
      ]_vars

====
